---- MODULE Spec2Model ----
(***************************************************************************)
(* Model of src/utils.py: the three distributed samplers                   *)
(* (DistributedWeightedSampler, DistributedSequenceSampler,                *)
(* DistributedGroupSampler) and restart_from_checkpoint.                   *)
(*                                                                         *)
(* The sampler part models one replica group: num_replicas sampler objects *)
(* built by the same script from the same dataset, seed and epoch, which   *)
(* differ only in their rank.  The generator np.random.default_rng(seed +  *)
(* epoch) is a deterministic function of its seed, so its draws are the    *)
(* same on every rank; the variable g holds what it yields, from the first *)
(* __iter__ that constructs it on.                                         *)
(***************************************************************************)
EXTENDS Integers, Sequences, FiniteSets, TLC

VARIABLES
    self,            \* fields of the sampler objects fixed by __init__
    weights,         \* DistributedWeightedSampler.weights
    g,               \* what the generator seeded with seed + epoch draws, once drawn
    it,              \* per rank: the outcome of __iter__ on that rank
    files,           \* paths p for which os.path.isfile(p) holds
    checkpoint,      \* keys of the mapping torch.load returns
    call,            \* arguments of the restart_from_checkpoint call
    objects,         \* state of the objects passed as kwargs values
    run_variables,   \* the caller's run_variables dict after the call
    ret              \* how the restart_from_checkpoint call ended

vars == <<self, weights, g, it, files, checkpoint, call, objects, run_variables, ret>>

samplerVars == <<self, weights, g, it>>
restartVars == <<files, checkpoint, call, objects, run_variables, ret>>

----------------------------------------------------------------------------
(* Bounds *)
MaxN == 3              \* len(dataset) of the weighted sampler ranges over 0..MaxN
MaxSeqN == 10          \* len(dataset) of the sequence sampler ranges over 0..MaxSeqN
MaxGroupN == 3         \* len(groups) of the group sampler ranges over 0..MaxGroupN
MaxReplicas == 3       \* num_replicas ranges over 1..MaxReplicas
MaxBatch == 2          \* batch_size ranges over 1..MaxBatch
MaxGroupId == 1        \* group labels range over 0..MaxGroupId
MaxPaths == 2          \* ckp_paths lists have at most MaxPaths entries

----------------------------------------------------------------------------
(* Python list and arithmetic primitives *)

Min(a, b) == IF a <= b THEN a ELSE b
Max(a, b) == IF a >= b THEN a ELSE b

\* math.ceil(a / b) for b > 0
Ceil(a, b) == -((-a) \div b)

\* s[:stop] ; a negative stop counts from the end, as Python does
Prefix(s, stop) ==
    LET e == IF stop < 0 THEN Max(Len(s) + stop, 0) ELSE Min(stop, Len(s))
    IN  SubSeq(s, 1, e)

\* s[start:stop] for 0 <= start, 0 <= stop
Slice(s, start, stop) ==
    SubSeq(s, Min(start, Len(s)) + 1, Min(stop, Len(s)))

\* s * k
RECURSIVE Repeat(_, _)
Repeat(s, k) == IF k <= 0 THEN <<>> ELSE s \o Repeat(s, k - 1)

\* s[start:stop:step] for 0 <= start, 0 <= stop, step >= 1
Stride(s, start, stop, step) ==
    LET e == Min(stop, Len(s))
        n == IF e <= start THEN 0 ELSE Ceil(e - start, step)
    IN  [k \in 1..n |-> s[start + (k - 1) * step + 1]]

Range(s) == {s[k] : k \in 1..Len(s)}

\* the elements of a finite set of integers in ascending order
RECURSIVE Sorted(_)
Sorted(S) ==
    IF S = {} THEN <<>>
    ELSE LET m == CHOOSE x \in S : \A y \in S : x <= y
         IN  <<m>> \o Sorted(S \ {m})

----------------------------------------------------------------------------
(* Outcomes of a call: a value or the exception it raises *)

Ok(s) == [status |-> "ok", indices |-> s]
Raise(e) == [status |-> e, indices |-> <<>>]

----------------------------------------------------------------------------
(* DistributedSampler fields derived in the base class constructor *)

Ranks == 0..(self.num_replicas - 1)

\* totalSize: ceil(N / worldSize) * worldSize when not truncating,
\* N - (N mod worldSize) when truncating
total_size ==
    IF self.drop_last
    THEN self.N - (self.N % self.num_replicas)
    ELSE Ceil(self.N, self.num_replicas) * self.num_replicas

num_samples == total_size \div self.num_replicas

----------------------------------------------------------------------------
(* The generator *)

\* g.choice(a, size=k, replace=True, p=w): k draws from the support of w,
\* from all of 0..a-1 when w is None
None == [none |-> TRUE, p |-> {}]
Weights(w) == [none |-> FALSE, p |-> w]

Support(n, w) == IF w.none THEN 0..(n - 1) ELSE w.p

ChoiceReplace(n, k, w) == [1..k -> Support(n, w)]

\* variant: the draw made with replace=True
ChoiceNoReplace_replacing(S, k) == [1..k -> S]

\* g.choice(S, k, replace=False): k pairwise distinct elements of S in the
\* order drawn; numpy raises ValueError when k > |S|
ChoiceNoReplace(S, k) ==
    {f \in [1..k -> S] : \A a, b \in 1..k : a # b => f[a] # f[b]}

----------------------------------------------------------------------------
(* Padding / truncation and the rank stride, shared by the weighted and    *)
(* the group sampler                                                       *)

\* variant: the padding without the repetition branch
Normalize_single_copy(indices) ==
    IF ~self.drop_last
    THEN Ok(indices \o Prefix(indices, total_size - Len(indices)))
    ELSE Ok(Prefix(indices, total_size))

\* the value of indices at the first assert
Normalize(indices) ==
    IF ~self.drop_last
    THEN LET padding_size == total_size - Len(indices)
         IN  IF padding_size <= Len(indices)
             THEN Ok(indices \o Prefix(indices, padding_size))
             ELSE IF Len(indices) = 0
                  THEN Raise("ZeroDivisionError")
                  ELSE Ok(indices \o Prefix(Repeat(indices, Ceil(padding_size, Len(indices))),
                                            padding_size))
    ELSE Ok(Prefix(indices, total_size))

\* variant: the stride started at 0 on every rank
Subsample_no_offset(indices, rank) == Stride(indices, 0, total_size, self.num_replicas)

Subsample(indices, rank) == Stride(indices, rank, total_size, self.num_replicas)

\* everything __iter__ does after the draw; raw, normalized and indices are
\* the values of the local variable indices after the draw, at the first
\* assert and at the return
Finish(raw, rank) ==
    LET nz == Normalize(raw)
    IN  IF nz.status # "ok"
        THEN [status |-> nz.status, raw |-> raw, normalized |-> <<>>, indices |-> <<>>]
        ELSE IF Len(nz.indices) # total_size
        THEN [status |-> "AssertionError", raw |-> raw, normalized |-> nz.indices,
              indices |-> <<>>]
        ELSE IF Len(Subsample(nz.indices, rank)) # num_samples
        THEN [status |-> "AssertionError", raw |-> raw, normalized |-> nz.indices,
              indices |-> <<>>]
        ELSE [status |-> "ok", raw |-> raw, normalized |-> nz.indices,
              indices |-> Subsample(nz.indices, rank)]

NotRun == [status |-> "none", raw |-> <<>>, normalized |-> <<>>, indices |-> <<>>]
Failed(e) == [status |-> e, raw |-> <<>>, normalized |-> <<>>, indices |-> <<>>]

----------------------------------------------------------------------------
(* DistributedGroupSampler.__init__ *)

\* split_into_groups(groups)[1]: for each distinct label, in ascending label
\* order, the dataset indices carrying it (gid k of the code is entry k + 1)
group_indices(cfg) ==
    LET labels == Sorted(Range(cfg.groups))
    IN  [k \in 1..Len(labels) |-> {i \in 0..(cfg.N - 1) : cfg.groups[i + 1] = labels[k]}]

groupsize(cfg) == [k \in 1..Len(group_indices(cfg)) |-> Cardinality(group_indices(cfg)[k])]

RECURSIVE SumSeq(_)
SumSeq(s) == IF s = <<>> THEN 0 ELSE Head(s) + SumSeq(Tail(s))

----------------------------------------------------------------------------
(* The draws of DistributedGroupSampler.__iter__                           *)

\* the inner loop "for gid in gids", from position j of gids on: every list
\* it can extend indices by, or the ValueError of a group that is too small
RECURSIVE MemberDraws(_, _, _)
MemberDraws(cfg, gids, j) ==
    IF j > Len(gids) THEN {Ok(<<>>)}
    ELSE LET members == group_indices(cfg)[gids[j] + 1]
             share == cfg.batch_size \div cfg.n_groups_per_batch
         IN  IF share > Cardinality(members)
             THEN {Raise("ValueError")}
             ELSE {IF rest.status = "ok" THEN Ok(index \o rest.indices) ELSE rest :
                     index \in ChoiceNoReplace(members, share),
                     rest \in MemberDraws(cfg, gids, j + 1)}

\* one pass of the outer loop
BatchDraws(cfg) ==
    LET G == Len(group_indices(cfg))
    IN  IF cfg.n_groups_per_batch > G
        THEN {Raise("ValueError")}
        ELSE UNION {MemberDraws(cfg, gids, 1) :
                      gids \in ChoiceNoReplace(0..(G - 1), cfg.n_groups_per_batch)}

\* k passes of the outer loop
RECURSIVE RawDraws(_, _)
RawDraws(cfg, k) ==
    IF k = 0 THEN {Ok(<<>>)}
    ELSE {IF b.status # "ok" THEN b
          ELSE IF rest.status # "ok" THEN rest
          ELSE Ok(b.indices \o rest.indices) :
            b \in BatchDraws(cfg), rest \in RawDraws(cfg, k - 1)}

NumBatches(cfg) == SumSeq(groupsize(cfg)) \div cfg.batch_size

----------------------------------------------------------------------------
(* Construction *)

WeightedConfigs ==
    [kind : {"weighted"}, N : 0..MaxN, num_replicas : 1..MaxReplicas,
     drop_last : BOOLEAN, groups : {<<>>}, n_groups_per_batch : {1}, batch_size : {1}]

SequenceConfigs ==
    [kind : {"sequence"}, N : 0..MaxSeqN, num_replicas : 1..MaxReplicas,
     drop_last : BOOLEAN, groups : {<<>>}, n_groups_per_batch : {1}, batch_size : {1}]

\* group labels are opaque: a labelling is taken up to renaming, each new
\* label being the least one not used before it
GroupLabels(n) ==
    {gs \in [1..n -> 0..MaxGroupId] :
       \A i \in 1..n : \A l \in 0..(gs[i] - 1) : \E k \in 1..(i - 1) : gs[k] = l}

\* the constructor asserts batch_size % n_groups_per_batch == 0
GroupConfigs ==
    {c \in UNION {[kind : {"group"}, N : {n}, num_replicas : 1..MaxReplicas,
                   drop_last : BOOLEAN, groups : GroupLabels(n),
                   n_groups_per_batch : 1..MaxBatch, batch_size : 1..MaxBatch] :
                  n \in 0..MaxGroupN} :
       c.batch_size % c.n_groups_per_batch = 0}

\* what the generator can yield for a sampler built as cfg with weights w
Draws(cfg, w) ==
    CASE cfg.kind = "weighted" -> {Ok(d) : d \in ChoiceReplace(cfg.N, cfg.N, w)}
      [] cfg.kind = "sequence" -> {Ok(<<>>)}
      [] cfg.kind = "group" ->
           IF Len(group_indices(cfg)) = 0 THEN {Ok(<<>>)}
           ELSE RawDraws(cfg, NumBatches(cfg))

Undrawn == [status |-> "undrawn", indices |-> <<>>]

\* default_rng(seed + epoch) in __iter__: the same draw on every rank
default_rng == IF g = Undrawn THEN Draws(self, weights) ELSE {g}

InitSampler(configs) ==
    /\ self \in configs
    /\ weights = None
    /\ g = Undrawn
    /\ it = [r \in Ranks |-> NotRun]

----------------------------------------------------------------------------
(* DistributedWeightedSampler *)

\* set_weights, called with the same weights on every replica; w is the set
\* of indices of positive weight.  The outcomes recorded in it and g belong
\* to the weights in force, so they are cleared.
set_weights(w) ==
    /\ self.kind = "weighted"
    /\ weights' = Weights(w)
    /\ g' = Undrawn
    /\ it' = [r \in Ranks |-> NotRun]
    /\ UNCHANGED <<self, restartVars>>

\* variant: __iter__ refusing to run while weights is None
WeightedIter_requires_weights(draw, rank) ==
    IF weights.none THEN Failed("PreconditionError") ELSE Finish(draw.indices, rank)

WeightedIter(draw, rank) == Finish(draw.indices, rank)

IterWeighted(rank) ==
    /\ self.kind = "weighted"
    /\ g' \in default_rng
    /\ it' = [it EXCEPT ![rank] = WeightedIter(g', rank)]
    /\ UNCHANGED <<self, weights, restartVars>>

----------------------------------------------------------------------------
(* DistributedSequenceSampler *)

\* variant: the block size without the + 1
per_size_floor == self.N \div self.num_replicas

per_size == (self.N \div self.num_replicas) + 1

SequenceIter(rank) ==
    LET idx == [k \in 1..self.N |-> k - 1]
    IN  [status |-> "ok", raw |-> idx, normalized |-> <<>>,
         indices |-> Slice(idx, rank * per_size, (rank + 1) * per_size)]

IterSequence(rank) ==
    /\ self.kind = "sequence"
    /\ it' = [it EXCEPT ![rank] = SequenceIter(rank)]
    /\ UNCHANGED <<self, weights, g, restartVars>>

----------------------------------------------------------------------------
(* DistributedGroupSampler *)

GroupIter(draw, rank) ==
    IF draw.status # "ok" THEN Failed(draw.status)
    ELSE Finish(draw.indices, rank)

IterGroup(rank) ==
    /\ self.kind = "group"
    /\ IF Len(group_indices(self)) = 0
       THEN /\ it' = [it EXCEPT ![rank] = Failed("ZeroDivisionError")]
            /\ g' = g
       ELSE /\ g' \in default_rng
            /\ it' = [it EXCEPT ![rank] = GroupIter(g', rank)]
    /\ UNCHANGED <<self, weights, restartVars>>

----------------------------------------------------------------------------
(* restart_from_checkpoint                                                 *)

Paths == {"A", "B", "C"}
ComponentKeys == {"model", "optimizer"}
RunVarNames == {"epoch"}

\* what checkpoint[key] of the file at path holds, and what an object or a
\* run variable holds before the call
Stored(path, key) == [from |-> path, key |-> key]
Fresh(key) == [from |-> "caller", key |-> key]
\* an object whose load_state_dict raised: its state is the object's affair
LoadFailed(key) == [from |-> "failed load", key |-> key]

NoneVars == [none |-> TRUE, vars |-> <<>>]
Dict(d) == [none |-> FALSE, vars |-> d]

\* how value.load_state_dict answers: it loads with strict=False; or raises
\* TypeError on the keyword and loads without it; or raises TypeError and
\* then raises from the second call; or raises another exception at once
Loads == {"loads", "TypeError then loads", "TypeError then raises", "raises"}

\* kwargs in call order: entries [key, value], value "None" or "object"
KwargsOver(keys) ==
    {kw \in [1..Cardinality(keys) -> [key : keys, value : {"None", "object"}]] :
       \A a, b \in 1..Cardinality(keys) : a # b => kw[a].key # kw[b].key}

AllKwargs == UNION {KwargsOver(keys) : keys \in SUBSET ComponentKeys}

\* ckp_paths: a list of paths or one path
AllCkpPaths ==
    {[list |-> TRUE, paths |-> ps] : ps \in UNION {[1..n -> Paths] : n \in 0..MaxPaths}}
    \cup {[list |-> FALSE, paths |-> <<p>>] : p \in Paths}

NoCall == [made |-> FALSE, ckp_paths |-> [list |-> TRUE, paths |-> <<>>],
           kwargs |-> <<>>, loads |-> <<>>, run_variables |-> NoneVars]

NotCalled == [status |-> "none", ckp_path |-> "", key |-> ""]

\* lines 168-173: the value of ckp_path after the loop, if it is bound
RECURSIVE ForLoop(_)
ForLoop(paths) ==
    IF paths = <<>> THEN [bound |-> FALSE, ckp_path |-> ""]
    ELSE IF Head(paths) \in files \/ Tail(paths) = <<>>
         THEN [bound |-> TRUE, ckp_path |-> Head(paths)]
         ELSE ForLoop(Tail(paths))

Resolve(ckp_paths) ==
    IF ckp_paths.list THEN ForLoop(ckp_paths.paths)
    ELSE [bound |-> TRUE, ckp_path |-> ckp_paths.paths[1]]

\* variant: an exception of load_state_dict swallowed, the loop going on
RECURSIVE LoadLoop_swallowing(_, _, _, _, _)
LoadLoop_swallowing(kwargs, loads, ckp_path, i, objs) ==
    IF i > Len(kwargs) THEN [objects |-> objs, raised |-> ""]
    ELSE LET key == kwargs[i].key
             rest(o) == LoadLoop_swallowing(kwargs, loads, ckp_path, i + 1, o)
         IN  IF key \in checkpoint /\ kwargs[i].value # "None"
             THEN IF loads[key] \in {"loads", "TypeError then loads"}
                  THEN rest([objs EXCEPT ![key] = Stored(ckp_path, key)])
                  ELSE [objects |-> rest([objs EXCEPT ![key] = LoadFailed(key)]).objects,
                        raised |-> key]
             ELSE rest(objs)

\* variant: the loop left at the first entry that is skipped
RECURSIVE LoadLoop_break_on_skip(_, _, _, _, _)
LoadLoop_break_on_skip(kwargs, loads, ckp_path, i, objs) ==
    IF i > Len(kwargs) THEN [objects |-> objs, raised |-> ""]
    ELSE LET key == kwargs[i].key
         IN  IF key \in checkpoint /\ kwargs[i].value # "None"
             THEN IF loads[key] \in {"loads", "TypeError then loads"}
                  THEN LoadLoop_break_on_skip(kwargs, loads, ckp_path, i + 1,
                                              [objs EXCEPT ![key] = Stored(ckp_path, key)])
                  ELSE [objects |-> [objs EXCEPT ![key] = LoadFailed(key)], raised |-> key]
             ELSE [objects |-> objs, raised |-> ""]

\* lines 188-204 from entry i of kwargs on: the objects afterwards and the
\* key whose load raised ("" when none did)
RECURSIVE LoadLoop(_, _, _, _, _)
LoadLoop(kwargs, loads, ckp_path, i, objs) ==
    IF i > Len(kwargs) THEN [objects |-> objs, raised |-> ""]
    ELSE LET key == kwargs[i].key
         IN  IF key \in checkpoint /\ kwargs[i].value # "None"
             THEN IF loads[key] \in {"loads", "TypeError then loads"}
                  THEN LoadLoop(kwargs, loads, ckp_path, i + 1,
                                [objs EXCEPT ![key] = Stored(ckp_path, key)])
                  ELSE [objects |-> [objs EXCEPT ![key] = LoadFailed(key)], raised |-> key]
             ELSE LoadLoop(kwargs, loads, ckp_path, i + 1, objs)

\* lines 207-210
ReloadVariables(rv, ckp_path) ==
    IF rv.none THEN rv
    ELSE Dict([v \in DOMAIN rv.vars |->
                 IF v \in checkpoint THEN Stored(ckp_path, v) ELSE rv.vars[v]])

LiveKeys(kwargs) == {kwargs[i].key : i \in {k \in 1..Len(kwargs) : kwargs[k].value # "None"}}

restart_from_checkpoint(ckp_paths, rv, kwargs, loads) ==
    /\ call' = [made |-> TRUE, ckp_paths |-> ckp_paths, kwargs |-> kwargs,
                loads |-> loads, run_variables |-> rv]
    /\ LET found == Resolve(ckp_paths)
           fresh == [k \in LiveKeys(kwargs) |-> Fresh(k)]
       IN  IF ~found.bound
           THEN /\ ret' = [status |-> "UnboundLocalError", ckp_path |-> "", key |-> ""]
                /\ objects' = fresh
                /\ run_variables' = rv
           ELSE IF found.ckp_path \notin files
           THEN /\ ret' = [status |-> "return, not found", ckp_path |-> found.ckp_path,
                           key |-> ""]
                /\ objects' = fresh
                /\ run_variables' = rv
           ELSE LET done == LoadLoop(kwargs, loads, found.ckp_path, 1, fresh)
                IN  IF done.raised # ""
                    THEN /\ ret' = [status |-> "raise", ckp_path |-> found.ckp_path,
                                    key |-> done.raised]
                         /\ objects' = done.objects
                         /\ run_variables' = rv
                    ELSE /\ ret' = [status |-> "return", ckp_path |-> found.ckp_path,
                                    key |-> ""]
                         /\ objects' = done.objects
                         /\ run_variables' = ReloadVariables(rv, found.ckp_path)
    /\ UNCHANGED <<files, checkpoint, samplerVars>>

NoSampler ==
    /\ self = [kind |-> "none", N |-> 0, num_replicas |-> 1, drop_last |-> FALSE,
               groups |-> <<>>, n_groups_per_batch |-> 1, batch_size |-> 1]
    /\ weights = None
    /\ g = Undrawn
    /\ it = <<>>

InitRestart ==
    /\ NoSampler
    /\ files \in SUBSET Paths
    /\ checkpoint \in SUBSET (ComponentKeys \cup RunVarNames)
    /\ call = NoCall
    /\ objects = <<>>
    /\ run_variables = NoneVars
    /\ ret = NotCalled

\* run_variables as the caller passes it: None, or a dict of defaults
AllRunVariables ==
    {NoneVars} \cup {Dict([v \in names |-> Fresh(v)]) : names \in SUBSET RunVarNames}

\* the function is called once, at process start
NextRestart ==
    /\ ~call.made
    /\ \E ckp_paths \in AllCkpPaths, kwargs \in AllKwargs, rv \in AllRunVariables :
          \E loads \in [LiveKeys(kwargs) \cap checkpoint -> Loads] :
             restart_from_checkpoint(ckp_paths, rv, kwargs, loads)

SpecRestart == InitRestart /\ [][NextRestart]_vars

----------------------------------------------------------------------------
NoRestart ==
    /\ files = {}
    /\ checkpoint = {}
    /\ call = NoCall
    /\ objects = <<>>
    /\ run_variables = NoneVars
    /\ ret = NotCalled

NextWeighted ==
    \/ \E w \in (SUBSET (0..(self.N - 1))) \ {{}} : set_weights(w)
    \/ \E rank \in Ranks : IterWeighted(rank)

NextSequence == \E rank \in Ranks : IterSequence(rank)

NextGroup == \E rank \in Ranks : IterGroup(rank)

InitWeighted == InitSampler(WeightedConfigs) /\ NoRestart
InitSequence == InitSampler(SequenceConfigs) /\ NoRestart
InitGroup == InitSampler(GroupConfigs) /\ NoRestart
InitStrided == InitSampler(WeightedConfigs \cup GroupConfigs) /\ NoRestart

NextStrided == NextWeighted \/ NextGroup

SpecWeighted == InitWeighted /\ [][NextWeighted]_vars
SpecSequence == InitSequence /\ [][NextSequence]_vars
SpecGroup == InitGroup /\ [][NextGroup]_vars
SpecStrided == InitStrided /\ [][NextStrided]_vars

----------------------------------------------------------------------------
(* Properties of the samplers *)

Ran(rank) == it[rank].status # "none"
AllRanOk == \A r \in Ranks : it[r].status = "ok"

\* C1: in the weighted and the group sampler, once every rank has iterated,
\* all ranks strided the same normalized list of length total_size, each
\* rank holds total_size / num_replicas indices, and position k of the
\* normalized list is entry k div num_replicas of rank k mod num_replicas:
\* interleaving the rank subsets gives the normalized list back.
C1_StrideCoversNormalizedList ==
    (self.kind \in {"weighted", "group"} /\ AllRanOk) =>
        LET nz == it[0].normalized
            ws == self.num_replicas
        IN  /\ \A r \in Ranks : it[r].normalized = nz
            /\ Len(nz) = total_size
            /\ Len(nz) % ws = 0
            /\ \A r \in Ranks : Len(it[r].indices) = Len(nz) \div ws
            /\ [k \in 1..Len(nz) |-> it[(k - 1) % ws].indices[((k - 1) \div ws) + 1]] = nz

C1_Witness ==
    /\ self.kind = "weighted"
    /\ self.num_replicas = 2
    /\ AllRanOk
    /\ Len(it[0].normalized) = 4
    /\ it[0].indices # it[1].indices

LabelOf(index) == self.groups[index + 1]
GroupLabelSet == {self.groups[i] : i \in 1..self.N}
MembersOf(label) == {i \in 1..self.N : self.groups[i] = label}

GroupsSuffice ==
    /\ self.n_groups_per_batch <= Cardinality(GroupLabelSet)
    /\ \A l \in GroupLabelSet :
         Cardinality(MembersOf(l)) >= self.batch_size \div self.n_groups_per_batch

\* C3: in the group sampler, when n_groups_per_batch does not exceed the
\* number of groups and every group has batch_size / n_groups_per_batch
\* members, the list drawn before normalization is floor(N / batch_size)
\* batches of batch_size indices; a batch is n_groups_per_batch runs, one
\* run per selected group, of batch_size / n_groups_per_batch pairwise
\* distinct members of that group, and the groups of a batch are distinct.
C3_GroupBalancedBatches ==
    \A r \in Ranks :
        (self.kind = "group" /\ GroupsSuffice /\ Ran(r)) =>
            LET raw == it[r].raw
                bs == self.batch_size
                n == self.n_groups_per_batch
                share == bs \div n
                at(b, j, m) == raw[b * bs + j * share + m]
            IN  /\ it[r].status # "ValueError"
                /\ Len(raw) = (self.N \div bs) * bs
                /\ \A b \in 0..((self.N \div bs) - 1) :
                     /\ \A j \in 0..(n - 1) : \A m1, m2 \in 1..share :
                          /\ LabelOf(at(b, j, m1)) = LabelOf(at(b, j, m2))
                          /\ m1 # m2 => at(b, j, m1) # at(b, j, m2)
                     /\ \A j1, j2 \in 0..(n - 1) :
                          j1 # j2 => LabelOf(at(b, j1, 1)) # LabelOf(at(b, j2, 1))
                     /\ Cardinality({LabelOf(raw[b * bs + m]) : m \in 1..bs}) = n

C3_Witness ==
    /\ self.kind = "group"
    /\ GroupsSuffice
    /\ self.n_groups_per_batch = 2
    /\ self.batch_size = 2
    /\ Ran(0)
    /\ Len(it[0].raw) = 2

\* C6 as claimed: in the sequence sampler with N >= 1, rank r receives
\* idx[r * B : (r + 1) * B] for the block size B = ceil(N / num_replicas).
C6_CeilBlocks ==
    \A r \in Ranks :
        (self.kind = "sequence" /\ self.N >= 1 /\ Ran(r)) =>
            LET B == Ceil(self.N, self.num_replicas)
                lo == Min(r * B, self.N)
                hi == Min((r + 1) * B, self.N)
            IN  it[r].indices = [k \in 1..(hi - lo) |-> lo + k - 1]

\* C7: in the sequence sampler, once every rank has iterated, each rank
\* holds an ascending run of consecutive indices and the runs concatenated
\* in rank order are exactly 0..N-1.
RECURSIVE ConcatRanks(_)
ConcatRanks(r) ==
    IF r >= self.num_replicas THEN <<>> ELSE it[r].indices \o ConcatRanks(r + 1)

C7_SequenceBlocksPartition ==
    (self.kind = "sequence" /\ AllRanOk) =>
        /\ \A r \in Ranks : \A k \in 1..(Len(it[r].indices) - 1) :
             it[r].indices[k + 1] = it[r].indices[k] + 1
        /\ \A r1, r2 \in Ranks :
             r1 # r2 => Range(it[r1].indices) \cap Range(it[r2].indices) = {}
        /\ ConcatRanks(0) = [k \in 1..self.N |-> k - 1]

C7_Witness ==
    /\ self.kind = "sequence"
    /\ self.N = 10
    /\ self.num_replicas = 3
    /\ AllRanOk
    /\ it[2].indices = <<8, 9>>

C9_GroupNormalizedLength ==
    \A r \in Ranks :
        (self.kind = "group" /\ self.N >= 1 /\ Ran(r) /\ it[r].status # "ValueError") =>
            /\ it[r].status = "ok"
            /\ Len(it[r].normalized) = total_size
            /\ Len(it[r].indices) = total_size \div self.num_replicas

----------------------------------------------------------------------------
(* Properties of restart_from_checkpoint *)

Existing(paths) == {i \in 1..Len(paths) : paths[i] \in files}
FirstExisting(paths) == paths[CHOOSE i \in Existing(paths) : \A k \in Existing(paths) : i <= k]

Eligible(i) == call.kwargs[i].key \in checkpoint /\ call.kwargs[i].value # "None"
Raising(i) == Eligible(i) /\ call.loads[call.kwargs[i].key] \in {"TypeError then raises", "raises"}
Entries == 1..Len(call.kwargs)

\* C4 as claimed: when the load of one component raises, every other
\* component that is not None and is a key of the checkpoint is restored
\* all the same, wherever it stands in kwargs.
C4_FailureIsolated ==
    ret.status = "raise" =>
        \A i \in Entries :
            (Eligible(i) /\ ~Raising(i)) =>
                objects[call.kwargs[i].key] = Stored(ret.ckp_path, call.kwargs[i].key)

\* C4 amended: when the load of one component raises, the exception leaves
\* the call at once, naming the first component in kwargs order whose load
\* raises: the eligible components before it are restored, the components
\* after it are left as they were and no run variable is reloaded.
C4_FailureAborts ==
    (call.made /\ Existing(call.ckp_paths.paths) # {} /\ \E i \in Entries : Raising(i)) =>
        LET f == CHOOSE i \in Entries : Raising(i) /\ \A k \in Entries : Raising(k) => i <= k
            path == FirstExisting(call.ckp_paths.paths)
        IN  /\ ret.status = "raise"
            /\ ret.key = call.kwargs[f].key
            /\ \A i \in 1..(f - 1) :
                 Eligible(i) => objects[call.kwargs[i].key] = Stored(path, call.kwargs[i].key)
            /\ \A i \in (f + 1)..Len(call.kwargs) :
                 call.kwargs[i].value # "None" =>
                     objects[call.kwargs[i].key] = Fresh(call.kwargs[i].key)
            /\ run_variables = call.run_variables

\* the optimizer fails first; the model, which is in the checkpoint, is not tried
C4_Witness ==
    /\ ret.status = "raise"
    /\ ret.key = "optimizer"
    /\ Len(call.kwargs) = 2
    /\ call.kwargs[2] = [key |-> "model", value |-> "object"]
    /\ "model" \in checkpoint
    /\ call.loads["model"] = "loads"
    /\ objects["model"] = Fresh("model")
    /\ "epoch" \in checkpoint
    /\ ~call.run_variables.none
    /\ run_variables = call.run_variables

\* C5 as claimed: for every candidate list, the empty one included, the
\* call selects the first candidate that exists; when none exists it returns
\* without raising and without loading anything.
C5_FirstExistingOrNotFound ==
    call.made =>
        IF Existing(call.ckp_paths.paths) # {}
        THEN /\ ret.status \in {"return", "raise"}
             /\ ret.ckp_path = FirstExisting(call.ckp_paths.paths)
        ELSE /\ ret.status = "return, not found"
             /\ \A k \in DOMAIN objects : objects[k] = Fresh(k)
             /\ run_variables = call.run_variables

\* C10: when a checkpoint is found and no load raises, the call returns;
\* an object that is not None and whose key is in the checkpoint holds the
\* checkpoint's state, every other object is as it was; a run variable whose
\* name is in the checkpoint holds the checkpoint's value, every other one
\* the caller's.
C10_RestoreFrame ==
    (call.made /\ Existing(call.ckp_paths.paths) # {} /\ \A i \in Entries : ~Raising(i)) =>
        LET path == FirstExisting(call.ckp_paths.paths)
        IN  /\ ret.status = "return"
            /\ \A i \in Entries :
                 LET key == call.kwargs[i].key
                 IN  call.kwargs[i].value # "None" =>
                        objects[key] = IF key \in checkpoint THEN Stored(path, key)
                                       ELSE Fresh(key)
            /\ DOMAIN objects = LiveKeys(call.kwargs)
            /\ run_variables.none = call.run_variables.none
            /\ DOMAIN run_variables.vars = DOMAIN call.run_variables.vars
            /\ \A v \in DOMAIN run_variables.vars :
                 run_variables.vars[v] = IF v \in checkpoint THEN Stored(path, v)
                                         ELSE call.run_variables.vars[v]

\* the model is None and is skipped, the optimizer after it is restored;
\* epoch is not in the checkpoint and keeps the caller's value
C10_Witness ==
    /\ ret.status = "return"
    /\ Len(call.kwargs) = 2
    /\ call.kwargs[1] = [key |-> "model", value |-> "None"]
    /\ call.kwargs[2] = [key |-> "optimizer", value |-> "object"]
    /\ objects["optimizer"] = Stored(ret.ckp_path, "optimizer")
    /\ "epoch" \notin checkpoint
    /\ ~run_variables.none
    /\ "epoch" \in DOMAIN run_variables.vars
    /\ run_variables.vars["epoch"] = Fresh("epoch")

====
